---- MODULE Spec2Model ----
(***************************************************************************)
(* Model of gitignore_plugin.py: a Sublime Text plugin that periodically   *)
(* merges the git-ignored paths of the open folders into the               *)
(* 'binary_file_patterns' preference.                                      *)
(*                                                                         *)
(* Paths, patterns and tool output are strings; the string operations of   *)
(* the code (strip, split, replace, rstrip, join, concatenation) are       *)
(* computed character by character as the code computes them.              *)
(***************************************************************************)
EXTENDS Integers, Sequences, FiniteSets, TLC

VARIABLES
    platform,       \* platform.system(): "Linux" or "Windows" (fixed per run)
    open_folders,   \* union of window.folders() over sublime.windows()
    gitdirs,        \* directories that directly contain a '.git' subdirectory
    ign,            \* filesystem entries git reports as ignored
    gitOK,          \* the git executable can be launched
    failing,        \* repositories in which git clean exits non-zero
    prefs,          \* Preferences.sublime-settings: key -> value
    has_run,        \* gitignorer.sublime-settings: '_sublime_gitignorer_has_run'
    pc,             \* position of the plugin's code in the host
    timers,         \* number of pending sublime.set_timeout(run, ...) callbacks
    migrated,       \* migrate_exclude_patterns() has run since the module was loaded (history)
    last,           \* record of the most recent pass (history)
    probe           \* one call of repo_ignored_paths on a given tool output

vars == <<platform, open_folders, gitdirs, ign, gitOK, failing, prefs, has_run, pc, timers, migrated, last, probe>>
env  == <<platform, open_folders, gitdirs, ign, gitOK, failing>>

\* the keys of Preferences.sublime-settings that hold exclusion patterns
PrefKeys == {"binary_file_patterns", "file_exclude_patterns", "folder_exclude_patterns"}

\* the key of s.get at line 46 (file_exclude_patterns), at line 47
\* (folder_exclude_patterns) and at line 67 (old_files)
patterns_key == "binary_file_patterns"
folder_key   == "binary_file_patterns"
old_key      == "binary_file_patterns"

\* faulty variant of write_key: the key the docstring names
docstring_key == "file_exclude_patterns"

\* the key of s.set at line 72
write_key == "binary_file_patterns"

\* the stored pattern list: what s.get(patterns_key) gives
stored == prefs[patterns_key]

\* At most this many folders are open in the host at the same time.
MaxOpen == 2

\* At most this many repositories have a failing git clean at the same time.
MaxFailing == 1

(***************************************************************************)
(* String helpers: the Python str methods the code uses, on TLA+ strings.  *)
(***************************************************************************)
NL == "\n"
BS == "\\"
SL == "/"

\* the elements of a list
Range(s) == {s[i] : i \in 1..Len(s)}

NoDup(s) == \A i, j \in 1..Len(s) : i # j => s[i] # s[j]

Count(s, x) == Cardinality({i \in 1..Len(s) : s[i] = x})

\* the list p is a prefix of the list s
IsListPrefix(p, s) == Len(p) <= Len(s) /\ \A i \in 1..Len(p) : s[i] = p[i]

\* s[i] of a string (1-based)
At(s, i) == SubSeq(s, i, i)

\* str.startswith(p)
startswith(s, p) == Len(p) <= Len(s) /\ SubSeq(s, 1, Len(p)) = p

\* str.isspace() for the characters that occur: non-empty and all whitespace
IsWs(c) == c \in {" ", NL}
isspace(s) == Len(s) > 0 /\ \A i \in 1..Len(s) : IsWs(At(s, i))

RECURSIVE lstrip(_)
lstrip(s) == IF Len(s) > 0 /\ IsWs(Head(s)) THEN lstrip(Tail(s)) ELSE s

RECURSIVE rstrip_ws(_)
rstrip_ws(s) ==
    IF Len(s) > 0 /\ IsWs(At(s, Len(s))) THEN rstrip_ws(SubSeq(s, 1, Len(s) - 1)) ELSE s

\* str.strip()
strip(s) == rstrip_ws(lstrip(s))

\* str.rstrip(c)
RECURSIVE rstrip(_, _)
rstrip(s, c) ==
    IF Len(s) > 0 /\ At(s, Len(s)) = c THEN rstrip(SubSeq(s, 1, Len(s) - 1), c) ELSE s

\* str.split(c): the list of the pieces between occurrences of the character c
RECURSIVE SplitAcc(_, _, _)
SplitAcc(s, c, cur) ==
    IF s = "" THEN <<cur>>
    ELSE IF Head(s) = c THEN <<cur>> \o SplitAcc(Tail(s), c, "")
    ELSE SplitAcc(Tail(s), c, cur \o Head(s))
split(s, c) == SplitAcc(s, c, "")

\* str.find(sub): index (1-based) of the first occurrence of sub in s, 0 if none
RECURSIVE FindFrom(_, _, _)
FindFrom(s, sub, i) ==
    IF i + Len(sub) - 1 > Len(s) THEN 0
    ELSE IF SubSeq(s, i, i + Len(sub) - 1) = sub THEN i
    ELSE FindFrom(s, sub, i + 1)
find(s, sub) == FindFrom(s, sub, 1)

\* str.replace(old, new, 1): replaces the first occurrence only, wherever it is
replace1(s, old, new) ==
    LET i == find(s, old)
    IN  IF i = 0 THEN s
        ELSE SubSeq(s, 1, i - 1) \o new \o SubSeq(s, i + Len(old), Len(s))

\* str.replace(c, d) for single characters: every occurrence
RECURSIVE replace_char(_, _, _)
replace_char(s, c, d) ==
    IF s = "" THEN ""
    ELSE (IF Head(s) = c THEN d ELSE Head(s)) \o replace_char(Tail(s), c, d)

\* concatenation of a list of strings
RECURSIVE Concat(_)
Concat(ss) == IF ss = <<>> THEN "" ELSE Head(ss) \o Concat(Tail(ss))

(***************************************************************************)
(* The filesystem the plugin looks at. The directory tree is fixed; which  *)
(* directories hold a '.git', which entries git ignores, which folders are *)
(* open and whether git can be launched are the environment's choice.      *)
(***************************************************************************)
\* POSIX tree
WorkApp == "/work/app"
Lib     == "/work/app/lib"
Src     == "/work/app/lib/src"
Build   == "/work/app/lib/build"
OutLog  == "/work/app/lib/out.log"
TmpO    == "/work/app/a.o"
\* Windows tree: a drive-letter repository and one on a UNC share
WRepo   == "C:\\w"
WBuild  == "C:\\w\\b"
WOut    == "C:\\w\\o"
URepo   == "\\\\s\\w"
UOut    == "\\\\s\\w\\o"
\* an entry of the preference that the user put there
Pre     == "*.pyc"

Platforms == {"Linux", "Windows"}
Sep(p)      == IF p = "Windows" THEN BS ELSE SL
Roots(p)    == IF p = "Windows" THEN {WRepo, URepo} ELSE {WorkApp, Lib, Src}
RepoDirs(p) == IF p = "Windows" THEN {WRepo, URepo} ELSE {WorkApp, Lib}
AllDirs(p)  == IF p = "Windows" THEN {WRepo, WBuild, URepo} ELSE {WorkApp, Lib, Src, Build}
\* the entries an ignore rule may match, in the order git lists them
Entries(p)  == IF p = "Windows" THEN <<WBuild, WOut, UOut>> ELSE <<TmpO, Build, OutLog>>

\* d lies strictly below anc
IsUnder(d, anc) == startswith(d, anc \o Sep(platform))
AtOrUnder(d, anc) == d = anc \/ IsUnder(d, anc)

\* os.path.isdir(path)
isdir(path) == path \in AllDirs(platform)

\* os.path.join(a, b) for the two-argument use of the code
join(a, b) ==
    IF Len(b) > 0 /\ (Head(b) = Sep(platform) \/ (platform = "Windows" /\ Head(b) = SL)) THEN b
    ELSE IF Len(a) = 0 \/ At(a, Len(a)) = Sep(platform)
                       \/ (platform = "Windows" /\ At(a, Len(a)) = SL)
         THEN a \o b
    ELSE a \o Sep(platform) \o b

\* os.path.abspath(p) of an absolute path: separators become the OS separator
abspath(p) == replace_char(p, SL, Sep(platform))

(***************************************************************************)
(* git, as a black box with the invocation contract the code relies on.    *)
(***************************************************************************)
WouldRemove == "Would remove "

\* git prints paths with forward slashes on every platform
GitSlashes(p) == replace_char(p, BS, SL)

\* git rev-parse --is-inside-work-tree, run in folder: the exit code
GitInsideWorkTreeExit(folder) ==
    IF \E r \in gitdirs : AtOrUnder(folder, r) THEN 0 ELSE 128

\* git rev-parse --show-toplevel, run in folder: stdout
GitShowToplevelStdout(folder) ==
    LET encl == {r \in gitdirs : AtOrUnder(folder, r)}
    IN  IF encl = {} THEN ""
        ELSE LET top == CHOOSE r \in encl : \A q \in encl : Len(q) <= Len(r)
             IN  GitSlashes(top) \o NL

\* git clean -ndX, run in git_repo: stdout, one 'Would remove <rel>' line per
\* ignored entry below the repository, a directory with a trailing slash
GitCleanLine(git_repo, e) ==
    WouldRemove \o GitSlashes(SubSeq(e, Len(git_repo) + 2, Len(e)))
                \o (IF isdir(e) THEN SL ELSE "") \o NL
\* git clean -ndX, run in git_repo: the exit code. A failing run (a directory
\* it cannot read, say) has written the lines of what it found before.
GitCleanExit(git_repo) == IF git_repo \in failing THEN 1 ELSE 0

GitCleanStdout(git_repo) ==
    LET es == SelectSeq(Entries(platform), LAMBDA e : e \in ign /\ IsUnder(e, git_repo))
    IN  Concat([i \in 1..Len(es) |-> GitCleanLine(git_repo, es[i])])


(***************************************************************************)
(* The plugin's functions.                                                 *)
(***************************************************************************)
\* the '.git' directory of a repository and a directory inside it
DotGit(d) == d \o Sep(platform) \o ".git"
DotGitHooks(d) == DotGit(d) \o Sep(platform) \o "hooks"

\* the directories on disk
TreeDirs == AllDirs(platform) \cup {DotGit(d) : d \in gitdirs}
                             \cup {DotGitHooks(d) : d \in gitdirs}

\* os.walk(folder): the directories it yields as root. The code never prunes
\* subfolders, so every directory at or below folder is visited.
os_walk(folder) == {root \in TreeDirs : AtOrUnder(root, folder)}

\* find_git_repos(folder): the directories os.walk(folder) visits whose
\* subfolders include '.git', that is, which have a directory named '.git'
\* directly in them
find_git_repos(folder) ==
    LET dirs == TreeDirs
    IN  {root \in os_walk(folder) : DotGit(root) \in dirs}

\* faulty variant of is_in_git_repo: the test of the exit code is inverted
exit_code_nonzero(folder) == GitInsideWorkTreeExit(folder) # 0

\* is_in_git_repo(folder): exit_code == 0
is_in_git_repo(folder) == GitInsideWorkTreeExit(folder) = 0

\* parent_repo_path(folder): abspath of the stripped stdout
parent_repo_path(folder) == abspath(strip(GitShowToplevelStdout(folder)))

\* repo_ignored_paths, lines 176-188: the absolute paths parsed from the
\* decoded stdout of git clean
parse_command_output(git_repo, command_output) ==
    IF isspace(command_output) \/ command_output = "" THEN <<>>
    ELSE LET lines == split(strip(command_output), NL)
             relative_paths == [i \in 1..Len(lines) |->
                                  rstrip(replace1(lines[i], WouldRemove, ""), SL)]
         IN  [i \in 1..Len(lines) |-> join(git_repo, relative_paths[i])]

\* repo_ignored_paths(git_repo): the absolute paths parsed from git's output
repo_ignored_paths(git_repo) ==
    parse_command_output(git_repo, GitCleanStdout(git_repo))

\* folder_ignored_paths(folder): the ignored paths of the repositories within
\* the folder and of the repository containing it
folder_repos(folder) ==
    find_git_repos(folder) \cup
    (IF is_in_git_repo(folder) THEN {parent_repo_path(folder)} ELSE {})
folder_ignored_paths(folder) ==
    UNION {Range(repo_ignored_paths(git_repo)) : git_repo \in folder_repos(folder)}

\* the git processes folder_ignored_paths(folder) launches: <<query, cwd>>
folder_calls(folder) ==
    {<<"is-inside-work-tree", folder>>}
    \cup (IF is_in_git_repo(folder) THEN {<<"show-toplevel", folder>>} ELSE {})
    \cup {<<"clean", git_repo>> : git_repo \in folder_repos(folder)}

\* the git processes of a pass
pass_calls == UNION {folder_calls(folder) : folder \in open_folders}

\* faulty variant of all_ignored_paths: the paths are queried only in the
\* process that ran the migration, later processes reuse an empty result
first_launch_only ==
    IF migrated THEN UNION {folder_ignored_paths(folder) : folder \in open_folders} ELSE {}

\* all_ignored_paths(): the set the function builds (it returns it as a list)
all_ignored_paths == UNION {folder_ignored_paths(folder) : folder \in open_folders}

\* windows_path_to_sublime_path(path), defined when its assertion holds
windows_path_ok(path) == Len(path) >= 2 /\ At(path, 2) = ":"
\* faulty variant of windows_path_to_sublime_path: the colon is kept
keeps_colon(path) == replace_char(path, BS, SL)

windows_path_to_sublime_path(path) ==
    LET without_colon == Head(path) \o SubSeq(path, 3, Len(path))
    IN  replace_char(without_colon, BS, SL)

\* the path in the form the pass appends it
sublime_path(path) ==
    IF platform = "Windows" THEN windows_path_to_sublime_path(path) ELSE path

\* faulty variant of append: the path is put at the front of the list
prepend(list, path) == <<path>> \o list

\* list.append(path)
append(list, path) == Append(list, path)

\* the loop of update_file_exclude_patterns over the list of ignored paths:
\* the two local lists after it
RECURSIVE merge_paths(_, _, _)
merge_paths(paths, file_exclude_patterns, folder_exclude_patterns) ==
    IF paths = <<>>
    THEN [file |-> file_exclude_patterns, folder |-> folder_exclude_patterns]
    ELSE LET is_directory == isdir(Head(paths))
             path == sublime_path(Head(paths))
         IN  IF is_directory
             THEN merge_paths(Tail(paths), file_exclude_patterns,
                      append(append(folder_exclude_patterns, path), path \o "/*"))
             ELSE merge_paths(Tail(paths), append(file_exclude_patterns, path),
                      folder_exclude_patterns)

\* s.get('binary_file_patterns', []) or []: a fresh list with the stored value
get_patterns == stored

\* s.set(key, value)
settings_set(s, key, value) == [s EXCEPT ![key] = value]

\* faulty variant of patterns_changed: the lists are compared, not the sets
lists_differ(file_exclude_patterns, old) == file_exclude_patterns # old

\* new_files != old_files
patterns_changed(file_exclude_patterns, old) == Range(file_exclude_patterns) # Range(old)

\* the subprocess calls of the pass raise OSError when git cannot be launched;
\* the first one is made for the first open folder
git_launch_raises == ~gitOK /\ open_folders # {}

\* the assertion of windows_path_to_sublime_path fails for some ignored path
assert_raises ==
    platform = "Windows" /\ \E path \in all_ignored_paths : ~windows_path_ok(path)

\* the orders list(set) may give the ignored paths
Orders(S) == {o \in [1..Cardinality(S) -> S] : \A x \in S : \E i \in DOMAIN o : o[i] = x}

\* faulty variant of is_first_launch: the stored flag is not consulted
always_first_launch == TRUE

\* is_first_launch()
is_first_launch == ~has_run

\* faulty variant of set_timeout: the callback is registered twice
set_timeout_twice(n) == n + 2

\* sublime.set_timeout(run, 1000 * 3600): one more pending callback
set_timeout(n) == n + 1


(***************************************************************************)
(* State machine.                                                          *)
(*   pc: "boot"    the module is loaded, start() is about to run           *)
(*       "migrate" is_first_launch() was true, migrate_exclude_patterns    *)
(*                 is next                                                 *)
(*       "record"  record_first_launch() is next                           *)
(*       "run"     run() has been entered, the pass is in progress         *)
(*       "arm"     the pass has returned, sublime.set_timeout is next      *)
(*       "idle"    run() has returned                                      *)
(*       "raised"  an exception left run()                                 *)
(***************************************************************************)
NoPass == [kind |-> "none", before |-> <<>>, wrote |-> FALSE, repeat |-> FALSE, keys |-> {},
           calls |-> {}, unreaped |-> FALSE]

\* The git processes started with subprocess.Popen(...).stdout.read(): stdout
\* is read to its end, and nothing waits for the process (is_in_git_repo uses
\* subprocess.call, which does).
popen_calls(calls) == {c \in calls : c[1] \in {"show-toplevel", "clean"}}

\* Whether a process of the pass is still un-reaped when the pass is over:
\* only a process nobody waited for can be, and whether it is depends on
\* when the child exits and when the interpreter drops the Popen object.
may_be_unreaped(calls) == IF popen_calls(calls) = {} THEN {FALSE} ELSE BOOLEAN

\* no call of repo_ignored_paths is singled out
NoProbe == [repo |-> "", out |-> "", res |-> <<>>, done |-> FALSE]

\* the other pattern settings as the host ships them
DefaultPrefs(patterns) ==
    [k \in PrefKeys |->
        IF k = patterns_key THEN patterns
        ELSE IF k = "file_exclude_patterns" THEN <<"*.pyc", ".DS_Store">>
        ELSE <<".git", ".svn">>]

Init ==
    /\ platform \in Platforms
    /\ open_folders = {}
    /\ gitdirs = {}
    /\ ign = {}
    /\ gitOK = TRUE
    /\ failing = {}
    /\ prefs \in {DefaultPrefs(<<>>), DefaultPrefs(<<Pre>>)}
    /\ has_run = FALSE
    /\ pc = "boot"
    /\ timers = 0
    /\ migrated = FALSE
    /\ last = NoPass
    /\ probe = NoProbe

\* start(), line 27: the test of is_first_launch()
Start ==
    /\ pc = "boot"
    /\ pc' = IF is_first_launch THEN "migrate" ELSE "run"
    /\ UNCHANGED <<probe, env, prefs, has_run, timers, migrated, last>>

\* migrate_exclude_patterns(): an empty function
Migrate ==
    /\ pc = "migrate"
    /\ pc' = "record"
    /\ migrated' = TRUE
    /\ UNCHANGED <<probe, env, prefs, has_run, timers, last>>

\* record_first_launch(): sets and saves the flag; start() then calls run()
RecordFirstLaunch ==
    /\ pc = "record"
    /\ has_run' = TRUE
    /\ pc' = "run"
    /\ UNCHANGED <<probe, env, prefs, timers, migrated, last>>

\* update_file_exclude_patterns() returns
RunUpdate ==
    /\ pc = "run"
    /\ ~git_launch_raises
    /\ ~assert_raises
    /\ \E paths \in Orders(all_ignored_paths), u \in may_be_unreaped(pass_calls) :
          LET m == merge_paths(paths, get_patterns, prefs[folder_key])
              changed == patterns_changed(m.file, prefs[old_key])
          IN  /\ prefs' = IF changed THEN settings_set(prefs, write_key, m.file) ELSE prefs
              /\ last' = [kind |-> "done", before |-> stored, wrote |-> changed,
                          repeat |-> last.kind = "done",
                          keys |-> {patterns_key, folder_key, old_key} \cup
                                   (IF changed THEN {write_key} ELSE {}),
                          calls |-> pass_calls, unreaped |-> u]
    /\ pc' = "arm"
    /\ UNCHANGED <<probe, env, has_run, timers, migrated>>

\* update_file_exclude_patterns() raises: the exception leaves run()
RunRaise ==
    /\ pc = "run"
    /\ git_launch_raises \/ assert_raises
    /\ pc' = "raised"
    /\ \E u \in may_be_unreaped(IF git_launch_raises THEN {} ELSE pass_calls) :
       last' = [kind |-> "raised", before |-> stored, wrote |-> FALSE, repeat |-> FALSE,
                keys |-> {patterns_key, folder_key},
                calls |-> IF git_launch_raises THEN {} ELSE pass_calls, unreaped |-> u]
    /\ UNCHANGED <<probe, env, prefs, has_run, timers, migrated>>

\* run(), line 33: sublime.set_timeout(run, 1000 * 3600)
SetTimeout ==
    /\ pc = "arm"
    /\ timers' = set_timeout(timers)
    /\ pc' = "idle"
    /\ UNCHANGED <<probe, env, prefs, has_run, migrated, last>>

\* the host calls a pending run() callback
TimerFire ==
    /\ pc \in {"idle", "raised"}
    /\ timers > 0
    /\ timers' = timers - 1
    /\ pc' = "run"
    /\ UNCHANGED <<probe, env, prefs, has_run, migrated, last>>

\* the host process ends and is started again: the module is loaded anew,
\* pending callbacks are gone, the settings files persist
Restart ==
    /\ pc # "boot"
    /\ pc' = "boot"
    /\ timers' = 0
    /\ migrated' = FALSE
    /\ UNCHANGED <<probe, env, prefs, has_run, last>>

\* the user opens or closes a folder
FoldersChange ==
    /\ \E f \in Roots(platform) :
          \/ f \in open_folders /\ open_folders' = open_folders \ {f}
          \/ /\ f \notin open_folders
             /\ Cardinality(open_folders) < MaxOpen
             /\ open_folders' = open_folders \cup {f}
    /\ last' = NoPass
    /\ UNCHANGED <<probe, platform, gitdirs, ign, gitOK, failing, prefs, has_run, pc, timers, migrated>>

\* a repository is created or removed
ReposChange ==
    /\ \E d \in RepoDirs(platform) :
          /\ gitdirs' = IF d \in gitdirs THEN gitdirs \ {d} ELSE gitdirs \cup {d}
          /\ failing' = failing \ {d}
    /\ last' = NoPass
    /\ UNCHANGED <<probe, platform, open_folders, ign, gitOK, prefs, has_run, pc, timers, migrated>>

\* an entry becomes ignored or stops being ignored
IgnoredChange ==
    /\ \E e \in Range(Entries(platform)) :
          ign' = IF e \in ign THEN ign \ {e} ELSE ign \cup {e}
    /\ last' = NoPass
    /\ UNCHANGED <<probe, platform, open_folders, gitdirs, gitOK, failing, prefs, has_run, pc, timers, migrated>>

\* the git executable is removed or installed
GitChange ==
    /\ gitOK' = ~gitOK
    /\ last' = NoPass
    /\ UNCHANGED <<probe, platform, open_folders, gitdirs, ign, failing, prefs, has_run, pc, timers, migrated>>

\* git clean starts or stops failing in a repository
CleanFailChange ==
    /\ \E r \in gitdirs :
          \/ r \in failing /\ failing' = failing \ {r}
          \/ /\ r \notin failing
             /\ Cardinality(failing) < MaxFailing
             /\ failing' = failing \cup {r}
    /\ last' = NoPass
    /\ UNCHANGED <<probe, platform, open_folders, gitdirs, ign, gitOK, prefs, has_run, pc, timers, migrated>>

Next ==
    \/ Start
    \/ Migrate
    \/ RecordFirstLaunch
    \/ RunUpdate
    \/ RunRaise
    \/ SetTimeout
    \/ TimerFire
    \/ Restart
    \/ FoldersChange
    \/ ReposChange
    \/ IgnoredChange
    \/ GitChange
    \/ CleanFailChange

Spec == Init /\ [][Next]_vars

TypeOK ==
    /\ platform \in Platforms
    /\ open_folders \subseteq Roots(platform)
    /\ gitdirs \subseteq RepoDirs(platform)
    /\ ign \subseteq Range(Entries(platform))
    /\ gitOK \in BOOLEAN
    /\ failing \subseteq gitdirs
    /\ has_run \in BOOLEAN
    /\ DOMAIN prefs = PrefKeys
    /\ pc \in {"boot", "migrate", "record", "run", "arm", "idle", "raised"}
    /\ timers \in 0..1
    /\ migrated \in BOOLEAN
    /\ probe = NoProbe

(***************************************************************************)
(* repo_ignored_paths on its own: the repository and the text git wrote to *)
(* stdout are the input, chosen at the start.                              *)
(***************************************************************************)
\* A tool output has at most this many lines.
MaxLines == 2

\* lines git clean -ndX can write: a file, a directory, a directory with
\* doubled slashes, a nested repository it leaves alone, and text that holds
\* the prefix after other words
OutputLines ==
    {"Would remove a.o", "Would remove build/", "Would remove d//",
     "Would skip repository lib/", "Not removing Would remove x"}

\* the tool outputs: empty, whitespace only, or up to MaxLines lines each
\* ended by a newline
Outputs ==
    {"", " ", NL} \cup
    UNION {{Concat([i \in 1..n |-> ls[i] \o NL]) : ls \in [1..n -> OutputLines]} : n \in 1..MaxLines}

ParseInit ==
    /\ platform \in Platforms
    /\ open_folders = {}
    /\ gitdirs = {}
    /\ ign = {}
    /\ gitOK = TRUE
    /\ failing = {}
    /\ prefs = DefaultPrefs(<<>>)
    /\ has_run = FALSE
    /\ pc = "boot"
    /\ timers = 0
    /\ migrated = FALSE
    /\ last = NoPass
    /\ probe \in [repo : RepoDirs(platform), out : Outputs, res : {<<>>}, done : {FALSE}]

\* repo_ignored_paths(git_repo) with the given stdout
ParseRun ==
    /\ ~probe.done
    /\ probe' = [probe EXCEPT !.res = parse_command_output(probe.repo, probe.out),
                              !.done = TRUE]
    /\ UNCHANGED <<env, prefs, has_run, pc, timers, migrated, last>>

ParseNext == ParseRun

ParseSpec == ParseInit /\ [][ParseNext]_vars


(***************************************************************************)
(* Properties.                                                             *)
(*                                                                         *)
(* 'last' describes the most recent pass for as long as the environment is *)
(* as that pass saw it (an environment change resets it), so in a state    *)
(* with last.kind = "done" the operators over the environment give what    *)
(* the pass computed.                                                      *)
(***************************************************************************)
PassDone == last.kind = "done"

\* the patterns an ignored path is to contribute: a directory P gives P and
\* P + '/*', a file Q gives Q
PatternsOf(path) ==
    IF isdir(path) THEN {sublime_path(path), sublime_path(path) \o "/*"}
    ELSE {sublime_path(path)}
DerivedPatterns == UNION {PatternsOf(path) : path \in all_ignored_paths}

\* the repositories of the pass, those reached from two open folders, and the
\* ignored paths reported by two repositories
AllRepos == UNION {folder_repos(f) : f \in open_folders}
SharedRepos ==
    {r \in AllRepos : \E f1, f2 \in open_folders :
                          f1 # f2 /\ r \in folder_repos(f1) /\ r \in folder_repos(f2)}
OverlapPaths ==
    {p \in all_ignored_paths : \E r1, r2 \in AllRepos :
        r1 # r2 /\ p \in Range(repo_ignored_paths(r1)) /\ p \in Range(repo_ignored_paths(r2))}

\* C1: a pass that follows a completed pass with nothing changed in between
\* writes nothing and leaves the stored list as it was.
C1_Idempotent ==
    (PassDone /\ last.repeat) => (~last.wrote /\ stored = last.before)

C1_Witness ==
    /\ PassDone /\ last.repeat
    /\ \E path \in all_ignored_paths : ~isdir(path) /\ sublime_path(path) \in Range(stored)

\* C2: after a pass that starts from a list holding none of the derived
\* patterns, the stored list is, as a set, the old list plus P and P + '/*'
\* for every ignored directory P and Q for every ignored file Q, and a write
\* occurred if there was any such pattern.
C2_DirectoryExpansion ==
    (PassDone /\ Range(last.before) \cap DerivedPatterns = {})
        => /\ Range(stored) = Range(last.before) \cup DerivedPatterns
           /\ (DerivedPatterns # {} => last.wrote)

\* C3: whenever run() is not executing after start(), a next pass is
\* scheduled, also when the pass raised: the loop never stops.
C3_LoopNeverStops ==
    (pc \in {"idle", "raised"}) => timers > 0

\* C4: with the git executable absent, the pass completes without raising,
\* writes nothing and leaves the stored list unchanged.
C4_SilentToolFailure ==
    (~gitOK /\ last.kind # "none")
        => (last.kind = "done" /\ ~last.wrote /\ stored = last.before)

\* C5: a pass writes if and only if the set of the pre-existing entries
\* together with the patterns derived in the pass differs from the stored
\* set; when they are equal the stored list is untouched.
C5_WriteIffChanged ==
    PassDone =>
        /\ last.wrote <=> (Range(last.before) \cup DerivedPatterns # Range(last.before))
        /\ (~last.wrote => stored = last.before)

\* C6: the stored list never holds an entry more than once.
C6_Unique == NoDup(stored)

\* C7: every step leaves the stored list a prefix of the new stored list:
\* entries are kept in place and in order, new ones are only appended, none
\* is ever removed.
C7_Preserved == [][IsListPrefix(stored, stored')]_vars

C7_Witness ==
    /\ PassDone /\ last.wrote
    /\ Pre \in Range(last.before)
    /\ \E p \in Range(last.before) : p # Pre /\ p \notin DerivedPatterns
    /\ IsListPrefix(last.before, stored)

\* C8: after a pass that starts from a list holding none of the derived
\* patterns, every ignored path of a repository reached from two open
\* folders, and every ignored path reported by two repositories, is stored
\* exactly once.
C8_UnionOnce ==
    (PassDone /\ Range(last.before) \cap DerivedPatterns = {})
        => \A p \in UNION {Range(repo_ignored_paths(r)) : r \in SharedRepos} \cup OverlapPaths :
              Count(stored, sublime_path(p)) = 1

\* C9: migration runs only while the flag is false; the flag is true before
\* the first pass of a start begins; migration changes no exclusion setting;
\* the flag is never set back to false.
C9_FirstLaunch ==
    /\ [](pc = "migrate" => ~has_run)
    /\ [](pc \in {"run", "arm", "idle", "raised"} => has_run)
    /\ [][(pc = "migrate" /\ pc' = "record") => (stored' = stored /\ ~has_run)]_vars
    /\ [][(~migrated /\ migrated') => ~has_run]_vars
    /\ [][has_run => has_run']_vars

C9_Witness == has_run /\ ~migrated /\ pc = "run" /\ timers = 0 /\ PassDone

\* C10: start() enters the first pass without a timer; no timer is pending
\* while a pass is in progress; at most one timer is pending; a pass that
\* completes arms exactly one.
C10_Serialized ==
    /\ [](timers <= 1)
    /\ [](timers = 1 => pc = "idle")
    /\ [](pc = "idle" => timers = 1)
    /\ [][(pc \in {"boot", "record"} /\ pc' = "run") => (timers = 0 /\ timers' = 0)]_vars
    /\ [][(pc = "arm" /\ pc' = "idle") => (timers = 0 /\ timers' = 1)]_vars

C10_Witness == pc = "idle" /\ timers = 1 /\ PassDone /\ last.wrote

\* C11: when git clean exits non-zero in a repository, the enumeration of
\* that repository is empty whatever the process wrote, the pass does not
\* raise, and the ignored files of the other repositories are still stored.
C11_FailureContained ==
    (last.kind # "none" /\ gitOK /\ ~assert_raises /\ AllRepos \cap failing # {})
        => /\ PassDone
           /\ \A r \in AllRepos \cap failing : repo_ignored_paths(r) = <<>>
           /\ \A r \in AllRepos \ failing : \A p \in Range(repo_ignored_paths(r)) :
                 ~isdir(p) => sublime_path(p) \in Range(stored)

\* the entries the latest pass appended to the stored list
Appended == SubSeq(stored, Len(last.before) + 1, Len(stored))

\* out is path without its second character and with every backslash turned
\* into a forward slash
IsSublimeForm(path, out) ==
    /\ Len(out) = Len(path) - 1
    /\ At(out, 1) = At(path, 1)
    /\ \A i \in 2..Len(out) :
          At(out, i) = (IF At(path, i + 1) = BS THEN SL ELSE At(path, i + 1))

\* C12: on Windows a completed pass saw only paths with ':' as second
\* character and appended each ignored file without that colon and with
\* forward slashes (C:\repo\build gives C/repo/build); a pass that meets a
\* path with another second character raises; elsewhere the appended paths
\* are the ignored files unchanged.
C12_Normalized ==
    /\ windows_path_to_sublime_path("C:\\repo\\build") = "C/repo/build"
    /\ (PassDone /\ platform = "Windows")
          => LET paths == all_ignored_paths
             IN  /\ \A path \in paths : At(path, 2) = ":"
                 /\ last.wrote =>
                       /\ \A i \in 1..Len(Appended) : \E path \in paths :
                             ~isdir(path) /\ IsSublimeForm(path, Appended[i])
                       /\ \A path \in paths : ~isdir(path) =>
                             \E i \in 1..Len(Appended) : IsSublimeForm(path, Appended[i])
    /\ (platform = "Windows" /\ gitOK /\ last.kind # "none"
           /\ \E path \in all_ignored_paths : At(path, 2) # ":")
          => last.kind = "raised"
    /\ (PassDone /\ platform # "Windows" /\ last.wrote)
          => Range(Appended) = {path \in all_ignored_paths : ~isdir(path)}

C12_Witness ==
    /\ PassDone /\ platform = "Windows" /\ last.wrote
    /\ WOut \in all_ignored_paths
    /\ "C/w/o" \in Range(Appended)

Enclosing(folder) ==
    CHOOSE r \in gitdirs : /\ AtOrUnder(folder, r)
                           /\ \A q \in gitdirs : AtOrUnder(folder, q) => Len(q) <= Len(r)

\* C14: for every open folder the repositories a pass enumerates are those
\* of the walk plus the enclosing repository's top level exactly when the
\* is-inside-work-tree query exits 0; show-toplevel is launched for a folder
\* exactly when that query exits 0; git clean runs in exactly those
\* repositories.
C14_CollectRepos ==
    PassDone =>
        LET expected == [f \in open_folders |->
                            find_git_repos(f) \cup
                            (IF GitInsideWorkTreeExit(f) = 0 THEN {Enclosing(f)} ELSE {})]
        IN  /\ \A f \in open_folders :
                  /\ folder_repos(f) = expected[f]
                  /\ <<"is-inside-work-tree", f>> \in last.calls
                  /\ (<<"show-toplevel", f>> \in last.calls) <=> (GitInsideWorkTreeExit(f) = 0)
            /\ {c[2] : c \in {d \in last.calls : d[1] = "clean"}} =
                  UNION {expected[f] : f \in open_folders}

C14_Witness ==
    /\ PassDone
    /\ \E f \in open_folders :
          /\ GitInsideWorkTreeExit(f) = 0
          /\ Enclosing(f) \notin find_git_repos(f)
          /\ <<"clean", Enclosing(f)>> \in last.calls
    /\ \E g \in open_folders :
          /\ GitInsideWorkTreeExit(g) # 0
          /\ find_git_repos(g) # {}
          /\ <<"show-toplevel", g>> \notin last.calls

\* d is a '.git' directory or lies inside one
InsideDotGit(d) == \E g \in gitdirs : AtOrUnder(d, DotGit(g))

\* C15: for every open folder of a pass, find_git_repos returns exactly the
\* directories at or under it that directly hold a '.git', and the walk
\* visits no '.git' directory and nothing inside one.
C15_Walk ==
    PassDone =>
        \A f \in open_folders :
            /\ find_git_repos(f) = {d \in AllDirs(platform) : AtOrUnder(d, f) /\ d \in gitdirs}
            /\ \A d \in os_walk(f) : ~InsideDotGit(d)

\* the lines of a tool output: the pieces before each newline
OutLines(out) ==
    LET ps == split(out, NL)
    IN  IF ps[Len(ps)] = "" THEN SubSeq(ps, 1, Len(ps) - 1) ELSE ps

\* the path a line stands for: prefix cut from the start, trailing '/' cut,
\* joined to the repository
LinePath(git_repo, line) ==
    join(git_repo, rstrip(SubSeq(line, Len(WouldRemove) + 1, Len(line)), SL))

\* C16: repo_ignored_paths returns nothing for empty or whitespace-only
\* output; otherwise one path per line that begins with 'Would remove ', the
\* repository joined with the rest of the line less its trailing '/', and no
\* path for a line that does not begin with the prefix.
C16_Parse ==
    probe.done =>
        IF probe.out = "" \/ isspace(probe.out) THEN probe.res = <<>>
        ELSE LET good == SelectSeq(OutLines(probe.out), LAMBDA l : startswith(l, WouldRemove))
             IN  probe.res = [i \in 1..Len(good) |-> LinePath(probe.repo, good[i])]

\* C17: when a pass is over, whether it returned or raised, no git process
\* it started is still un-reaped.
C17_Reaped == last.kind \in {"done", "raised"} => ~last.unreaped

\* the entries of the ignored files as git reports them now in the
\* repositories reached from the folders open now
FreshFiles ==
    {sublime_path(q) :
        q \in {p \in UNION {Range(repo_ignored_paths(r)) : r \in AllRepos} : ~isdir(p)}}

\* C18 as written: from one starting state (stored list, open folders,
\* filesystem) every outcome a pass can have is the same list, entry by entry.
C18_SameOrder ==
    (pc = "run" /\ ~git_launch_raises /\ ~assert_raises) =>
        \A o1, o2 \in Orders(all_ignored_paths) :
            merge_paths(o1, get_patterns, prefs[folder_key]).file
                = merge_paths(o2, get_patterns, prefs[folder_key]).file

\* C18: what a completed pass leaves is determined by the stored list it
\* started from, the open folders and the filesystem alone, never by earlier
\* passes, restarts or the migration: it wrote exactly when some ignored file
\* was missing from the starting list, and then the stored list is the
\* starting list followed by each ignored file's entry once (in an order the
\* pass does not fix); otherwise the stored list is the starting list.
C18_Fresh ==
    PassDone =>
        LET fresh == FreshFiles
            changed == ~(fresh \subseteq Range(last.before))
        IN  /\ last.wrote = changed
            /\ IF changed
               THEN /\ IsListPrefix(last.before, stored)
                    /\ Range(Appended) = fresh
                    /\ Len(Appended) = Cardinality(fresh)
               ELSE stored = last.before

C18_Witness ==
    /\ PassDone /\ last.wrote
    /\ ~migrated
    /\ last.before # <<>>
    /\ Cardinality(FreshFiles) >= 2

====
